---- MODULE Spec2Model ----
(***************************************************************************)
(* A model of robco: src/src/password.rs (the Password record, its         *)
(* closeness_to comparison and its FromStr parser) and src/src/main.rs     *)
(* (read_passwords and the filtering in main).                             *)
(*                                                                         *)
(* A string is a sequence of one-character strings: "ab 1" is              *)
(* <<"a", "b", " ", "1">>.  An Option is <<>> (None) or <<v>> (Some(v)).   *)
(* A Result is <<"Ok", v>> or <<"Err", e>>.                                *)
(***************************************************************************)
EXTENDS Integers, Sequences, FiniteSets, TLC

\* ------------------------------------------------------------------------
\* Bounds of the checked instances.
\* ------------------------------------------------------------------------
MaxLines == 3       \* lines on standard input, specification Spec
MaxLineLen == 5     \* characters of a line, specification SpecParse
MaxWordLen == 3     \* characters of a word, specification SpecCloseness
MaxDist == 1        \* largest recorded distance, specification SpecCloseness

\* ------------------------------------------------------------------------
\* Generic helpers.
\* ------------------------------------------------------------------------
None == <<>>
Some(v) == <<v>>
Ok(v) == <<"Ok", v>>
Err(e) == <<"Err", e>>
IsOk(r) == r[1] = "Ok"
Min(m, n) == IF m <= n THEN m ELSE n
Range(s) == {s[i] : i \in DOMAIN s}

\* All strings over alphabet A of length at most n.
StringsUpTo(A, n) == UNION {[1..k -> A] : k \in 0..n}

\* ------------------------------------------------------------------------
\* password.rs
\* ------------------------------------------------------------------------
candidate(w) == [variant |-> "Candidate", word |-> w, distance |-> None]

witness(w, d) == [variant |-> "Witness", word |-> w, distance |-> Some(d)]

word(p) == p.word

distance(p) == IF p.variant = "Candidate" THEN None ELSE p.distance

\* chars().zip(chars()).filter(a == b).count(): zip ends with the shorter
\* of the two iterators.
RECURSIVE ZipCount(_, _)
ZipCount(s, t) ==
    IF s = <<>> \/ t = <<>>
    THEN 0
    ELSE (IF Head(s) = Head(t) THEN 1 ELSE 0) + ZipCount(Tail(s), Tail(t))

\* A comparison that counts the unmatched tail of self as well.
closeness_to_padded(self, other) ==
    ZipCount(word(self), word(other))
        + (IF Len(word(self)) > Len(word(other))
           THEN Len(word(self)) - Len(word(other)) ELSE 0)

\* A comparison that stops at the first mismatch (common prefix length).
RECURSIVE PrefixCount(_, _)
PrefixCount(s, t) ==
    IF s = <<>> \/ t = <<>> \/ Head(s) # Head(t)
    THEN 0
    ELSE 1 + PrefixCount(Tail(s), Tail(t))

closeness_to_prefix(self, other) == PrefixCount(word(self), word(other))

closeness_to(self, other) == ZipCount(word(self), word(other))

\* str::split(' '): the pieces between single spaces.  A string without a
\* space, the empty string included, yields exactly one piece.
RECURSIVE SplitFrom(_, _, _)
SplitFrom(s, i, cur) ==
    IF i > Len(s) THEN <<cur>>
    ELSE IF s[i] = " " THEN <<cur>> \o SplitFrom(s, i + 1, <<>>)
    ELSE SplitFrom(s, i + 1, Append(cur, s[i]))

split(s) == SplitFrom(s, 1, <<>>)

Digits == {"0", "1", "2", "3", "4", "5", "6", "7", "8", "9"}

DigitVal(c) ==
    CASE c = "0" -> 0 [] c = "1" -> 1 [] c = "2" -> 2 [] c = "3" -> 3
      [] c = "4" -> 4 [] c = "5" -> 5 [] c = "6" -> 6 [] c = "7" -> 7
      [] c = "8" -> 8 [] c = "9" -> 9

RECURSIVE DecimalValue(_, _)
DecimalValue(ds, acc) ==
    IF ds = <<>> THEN acc
    ELSE DecimalValue(Tail(ds), acc * 10 + DigitVal(Head(ds)))

\* usize::MAX on a 64-bit target, 18446744073709551615, in decimal digits.
UsizeMax ==
    <<"1", "8", "4", "4", "6", "7", "4", "4", "0", "7",
      "3", "7", "0", "9", "5", "5", "1", "6", "1", "5">>

RECURSIVE StripZeros(_)
StripZeros(ds) ==
    IF ds # <<>> /\ Head(ds) = "0" THEN StripZeros(Tail(ds)) ELSE ds

\* a <= b for two digit strings of the same length.
RECURSIVE DigitsLeq(_, _)
DigitsLeq(a, b) ==
    IF a = <<>> THEN TRUE
    ELSE IF DigitVal(Head(a)) # DigitVal(Head(b))
         THEN DigitVal(Head(a)) < DigitVal(Head(b))
         ELSE DigitsLeq(Tail(a), Tail(b))

\* The checked_mul / checked_add of the digit loop fails: the number the
\* digits denote is above usize::MAX.  Decided on the digits, since the
\* number itself may be beyond the integers of the model checker.
Overflows(ds) ==
    LET sig == StripZeros(ds)
    IN  \/ Len(sig) > Len(UsizeMax)
        \/ Len(sig) = Len(UsizeMax) /\ ~DigitsLeq(sig, UsizeMax)

\* <usize as FromStr>::from_str: an optional leading '+', then one or more
\* decimal digits whose value is at most usize::MAX.  Some(value), or None
\* for a ParseIntError (Empty, InvalidDigit, PosOverflow).
parse_usize(tok) ==
    LET digits == IF tok # <<>> /\ Head(tok) = "+" THEN Tail(tok) ELSE tok
    IN  IF digits = <<>> \/ \E i \in DOMAIN digits : digits[i] \notin Digits
        THEN None
        ELSE IF Overflows(digits) THEN None
        ELSE Some(DecimalValue(digits, 0))

\* The parser with the third segment taking part: a line of more than two
\* segments is refused.
from_str_strict(s) ==
    LET segments == split(s)
    IN  IF Len(segments) = 0 THEN Err("NoInput")
        ELSE IF Len(segments) = 1 THEN Ok(candidate(segments[1]))
        ELSE IF Len(segments) > 2 \/ parse_usize(segments[2]) = None
             THEN Err("BadDistance")
             ELSE Ok(witness(segments[1], parse_usize(segments[2])[1]))

\* impl FromStr for Password.
from_str(s) ==
    LET segments == split(s)
    IN  IF Len(segments) = 0 THEN Err("NoInput")
        ELSE LET w == segments[1]
             IN  IF Len(segments) = 1 THEN Ok(candidate(w))
                 ELSE LET d == parse_usize(segments[2])
                      IN  IF d = None THEN Err("BadDistance")
                          ELSE Ok(witness(w, d[1]))

\* ------------------------------------------------------------------------
\* main.rs
\* ------------------------------------------------------------------------
\* One item of handle.lock().lines(): a line that was read, or an io::Error.
LineOk(text) == [ok |-> TRUE, text |-> text]
LineErr == [ok |-> FALSE, text |-> <<>>]

\* println!("At least one word must have a known distance")
NoWitnessLine == <<"At least one word must have a known distance">>

\* The lines standard input is drawn from in specification Spec.
PoolWords == {<<>>, <<"a">>, <<"a", "b">>, <<"b", "b">>, <<"a", "b", "b">>}
PoolDistances == {<<"0">>, <<"1">>, <<"2">>}
PoolLines ==
    {LineOk(w) : w \in PoolWords}
    \cup {LineOk(w \o <<" ">> \o d) : w \in PoolWords, d \in PoolDistances}
    \cup {LineOk(<<"a", " ", "a">>), LineErr}

VARIABLES
    stdin,        \* the whole input stream, a sequence of line items
    pos,          \* index of the next item lines() yields
    pairs,        \* the Vec<Password> collected so far / returned
    failure,      \* None, or Some("Input" | "Validation")
    valid_words,  \* Vec<HashSet<&str>>, one set per witness
    iter,         \* what first.iter() has yet to yield, in its order
    output,       \* the lines written to standard output
    pc,           \* position in main
    line,         \* SpecParse: the string given to from_str
    parsed,       \* SpecParse: None or Some(result of from_str)
    pa, pb,       \* SpecCloseness: two passwords
    close         \* SpecCloseness: None or Some(<<a~b, b~a>>)

vars == <<stdin, pos, pairs, failure, valid_words, iter, output, pc,
          line, parsed, pa, pb, close>>

mainVars == <<stdin, pos, pairs, failure, valid_words, iter, output, pc>>
parseVars == <<line, parsed>>
closeVars == <<pa, pb, close>>

\* The words of the records that match witness `pair`, in list order
\* (lines 33-35, before collect()).
MatchingWords(ps, pair) ==
    LET others == SelectSeq(ps,
                    LAMBDA other : distance(pair)[1] = closeness_to(other, pair))
    IN  [i \in DOMAIN others |-> word(others[i])]

\* The same with the comparison relaxed to "at least".
ConsistencySetAtLeast(ps, pair) ==
    {word(ps[i]) : i \in {j \in DOMAIN ps :
                            closeness_to(ps[j], pair) >= distance(pair)[1]}}

\* collect() into a HashSet<&str>.
ConsistencySet(ps, pair) == Range(MatchingWords(ps, pair))

\* filter_map over the pairs: one set per pair with a distance (lines 30-37).
ValidWords(ps) ==
    LET ws == SelectSeq(ps, LAMBDA pair : distance(pair) # None)
    IN  [k \in DOMAIN ws |-> ConsistencySet(ps, ws[k])]

\* The orders in which a HashSet may yield its elements.
IterOrders(S) ==
    {f \in [1..Cardinality(S) -> S] : \A x \in S : \E i \in DOMAIN f : f[i] = x}

\* Membership in the first set only: the other sets are never asked.
InAllOthersNone(w, vw) == TRUE

\* valid_words.iter().skip(1).all(|set| set.contains(word))
InAllOthers(w, vw) == \A k \in 2..Len(vw) : w \in vw[k]

MainInit ==
    /\ stdin \in UNION {[1..n -> PoolLines] : n \in 0..MaxLines}
    /\ pos = 1
    /\ pairs = <<>>
    /\ failure = None
    /\ valid_words = <<>>
    /\ iter = <<>>
    /\ output = <<>>
    /\ pc = "read"

MainIdle ==
    /\ stdin = <<>> /\ pos = 1 /\ pairs = <<>> /\ failure = None
    /\ valid_words = <<>> /\ iter = <<>> /\ output = <<>> /\ pc = "idle"

ParseIdle == line = <<>> /\ parsed = None
CloseIdle == pa = candidate(<<>>) /\ pb = candidate(<<>>) /\ close = None

\* read_passwords: one item of lines() read and parsed into the Vec.
ReadLine ==
    /\ pc = "read" /\ pos <= Len(stdin)
    /\ stdin[pos].ok
    /\ IsOk(from_str(stdin[pos].text))
    /\ pairs' = Append(pairs, from_str(stdin[pos].text)[2])
    /\ pos' = pos + 1
    /\ UNCHANGED <<stdin, failure, valid_words, iter, output, pc,
                   parseVars, closeVars>>

\* read_passwords: lines() yields an io::Error; collect() stops with
\* Err(Failure::Input) and main panics (line 26).
ReadInputError ==
    /\ pc = "read" /\ pos <= Len(stdin)
    /\ ~stdin[pos].ok
    /\ failure' = Some("Input")
    /\ pairs' = <<>>
    /\ pc' = "panicked"
    /\ UNCHANGED <<stdin, pos, valid_words, iter, output,
                   parseVars, closeVars>>

\* A reader that drops a line that does not parse and carries on.
ReadValidationSkip ==
    /\ pc = "read" /\ pos <= Len(stdin)
    /\ stdin[pos].ok
    /\ ~IsOk(from_str(stdin[pos].text))
    /\ pos' = pos + 1
    /\ UNCHANGED <<stdin, pairs, failure, valid_words, iter, output, pc,
                   parseVars, closeVars>>

\* read_passwords: the line does not parse; collect() stops with
\* Err(Failure::Validation) and main panics (line 26).
ReadValidationError ==
    /\ pc = "read" /\ pos <= Len(stdin)
    /\ stdin[pos].ok
    /\ ~IsOk(from_str(stdin[pos].text))
    /\ failure' = Some("Validation")
    /\ pairs' = <<>>
    /\ pc' = "panicked"
    /\ UNCHANGED <<stdin, pos, valid_words, iter, output,
                   parseVars, closeVars>>

\* read_passwords: end of stream, Ok(pairs); main builds valid_words.
BuildValidWords ==
    /\ pc = "read" /\ pos > Len(stdin)
    /\ valid_words' = ValidWords(pairs)
    /\ pc' = "match"
    /\ UNCHANGED <<stdin, pos, pairs, failure, iter, output,
                   parseVars, closeVars>>

\* The word lines replaced by silence in the no-witness branch.
PrintNoWitnessSilent ==
    /\ pc = "match" /\ valid_words = <<>>
    /\ pc' = "done"
    /\ UNCHANGED <<stdin, pos, pairs, failure, valid_words, iter, output,
                   parseVars, closeVars>>

\* match valid_words.first() { None => println!(...) }
PrintNoWitness ==
    /\ pc = "match" /\ valid_words = <<>>
    /\ output' = Append(output, NoWitnessLine)
    /\ pc' = "done"
    /\ UNCHANGED <<stdin, pos, pairs, failure, valid_words, iter,
                   parseVars, closeVars>>

\* The first list iterated as a Vec: every matching record, in list order.
IterFirstVec ==
    /\ pc = "match" /\ valid_words # <<>>
    /\ iter' = MatchingWords(pairs,
                 SelectSeq(pairs, LAMBDA pair : distance(pair) # None)[1])
    /\ pc' = "print"
    /\ UNCHANGED <<stdin, pos, pairs, failure, valid_words, output,
                   parseVars, closeVars>>

\* match valid_words.first() { Some(first) => first.iter()... }
IterFirst ==
    /\ pc = "match" /\ valid_words # <<>>
    /\ \E ord \in IterOrders(valid_words[1]) : iter' = ord
    /\ pc' = "print"
    /\ UNCHANGED <<stdin, pos, pairs, failure, valid_words, output,
                   parseVars, closeVars>>

\* for word in shared_words { println!("{}", word) }: one element of first
\* is taken, and printed when every other set contains it.
PrintShared ==
    /\ pc = "print" /\ iter # <<>>
    /\ output' = IF InAllOthers(Head(iter), valid_words)
                 THEN Append(output, Head(iter))
                 ELSE output
    /\ iter' = Tail(iter)
    /\ UNCHANGED <<stdin, pos, pairs, failure, valid_words, pc,
                   parseVars, closeVars>>

\* first.iter() is exhausted: main returns.
PrintDone ==
    /\ pc = "print" /\ iter = <<>>
    /\ pc' = "done"
    /\ UNCHANGED <<stdin, pos, pairs, failure, valid_words, iter, output,
                   parseVars, closeVars>>

\* ------------------------------------------------------------------------
\* Specification Spec: one run of main over an input stream.
\* ------------------------------------------------------------------------
Init == MainInit /\ ParseIdle /\ CloseIdle

Next ==
    \/ ReadLine
    \/ ReadInputError
    \/ ReadValidationError
    \/ BuildValidWords
    \/ PrintNoWitness
    \/ IterFirst
    \/ PrintShared
    \/ PrintDone

Spec == Init /\ [][Next]_vars

\* ------------------------------------------------------------------------
\* Specification SpecParse: from_str applied to every short line.
\* ------------------------------------------------------------------------
ParseAlphabet == {"a", " ", "0", "1", "+"}

\* Distance tokens at the edge of usize: 2^64, the same with a sign, twenty
\* nines, twenty-one digits, and twenty-two digits that denote 1.
LongTokens ==
    {<<"1", "8", "4", "4", "6", "7", "4", "4", "0", "7",
       "3", "7", "0", "9", "5", "5", "1", "6", "1", "6">>,
     <<"+", "1", "8", "4", "4", "6", "7", "4", "4", "0", "7",
       "3", "7", "0", "9", "5", "5", "1", "6", "1", "6">>,
     [i \in 1..20 |-> "9"],
     [i \in 1..21 |-> IF i = 1 THEN "1" ELSE "0"],
     [i \in 1..22 |-> IF i = 22 THEN "1" ELSE "0"]}

LongLines ==
    {<<"a", " ">> \o t : t \in LongTokens}
    \cup {<<"a", " ">> \o t \o <<" ", "a">> : t \in LongTokens}

ParseInit ==
    /\ line \in StringsUpTo(ParseAlphabet, MaxLineLen) \cup LongLines
    /\ parsed = None
    /\ MainIdle /\ CloseIdle

\* line.parse::<Password>()
Parse ==
    /\ parsed = None
    /\ parsed' = Some(from_str(line))
    /\ UNCHANGED <<line, mainVars, closeVars>>

ParseNext == Parse

SpecParse == ParseInit /\ [][ParseNext]_vars

\* ------------------------------------------------------------------------
\* Specification SpecCloseness: closeness_to applied to every pair of
\* small passwords, in both directions.
\* ------------------------------------------------------------------------
WordAlphabet == {"a", "b"}

Passwords ==
    {candidate(w) : w \in StringsUpTo(WordAlphabet, MaxWordLen)}
    \cup {witness(w, d) : w \in StringsUpTo(WordAlphabet, MaxWordLen),
                          d \in 0..MaxDist}

CloseInit ==
    /\ pa \in Passwords /\ pb \in Passwords
    /\ close = None
    /\ MainIdle /\ ParseIdle

\* pa.closeness_to(&pb) and pb.closeness_to(&pa)
Compare ==
    /\ close = None
    /\ close' = Some(<<closeness_to(pa, pb), closeness_to(pb, pa)>>)
    /\ UNCHANGED <<pa, pb, mainVars, parseVars>>

CloseNext == Compare

SpecCloseness == CloseInit /\ [][CloseNext]_vars

\* ------------------------------------------------------------------------
\* Properties.
\* ------------------------------------------------------------------------
Witnesses(ps) == {i \in DOMAIN ps : ps[i].variant = "Witness"}
Printed == Range(output)
ReadSucceeded == pc \in {"match", "print", "done"}
Finished == pc \in {"done", "panicked"}

\* The line items that fail: unreadable, or readable but not parsable.
LineFails(item) == ~item.ok \/ ~IsOk(from_str(item.text))
FailureKind(item) == IF ~item.ok THEN "Input" ELSE "Validation"
FailingLines == {i \in DOMAIN stdin : LineFails(stdin[i])}
FirstFailing == CHOOSE i \in FailingLines : \A j \in FailingLines : i <= j

\* Word x lies in the consistency set of the witness at index k.
InConsistencySet(x, k) ==
    \E i \in DOMAIN pairs :
        /\ word(pairs[i]) = x
        /\ closeness_to(pairs[i], pairs[k]) = pairs[k].distance[1]

\* C1: with at least one witness in the record list, the words main has
\* printed when it returns are exactly the words lying in the consistency
\* set of every witness, wherever the witnesses stand in the input.
C1_PrintedIsIntersection ==
    (pc = "done" /\ Witnesses(pairs) # {}) =>
        Printed = {x \in {word(pairs[i]) : i \in DOMAIN pairs} :
                     \A k \in Witnesses(pairs) : InConsistencySet(x, k)}

\* Two witnesses with different consistency sets, a printed word, and a word
\* of the first set that the second witness rules out.
C1_Witness ==
    /\ pc = "done" /\ Len(valid_words) >= 2
    /\ valid_words[1] # valid_words[2]
    /\ Printed # {}
    /\ \E x \in valid_words[1] : x \notin Printed

\* C2: the stream "one well-formed witness line, then an empty line" never
\* gets the empty line accepted as a record, and the run ends with a
\* Validation failure and no output.
C2_EmptyLineAborts ==
    (/\ Len(stdin) = 2
     /\ stdin[1].ok /\ IsOk(from_str(stdin[1].text))
     /\ from_str(stdin[1].text)[2].variant = "Witness"
     /\ word(from_str(stdin[1].text)[2]) # <<>>
     /\ stdin[2] = LineOk(<<>>))
    => /\ pos <= 2
       /\ output = <<>>
       /\ Finished => failure = Some("Validation")

\* C3: when some line of the stream fails, the run never leaves reading
\* except by the panic, computes no consistency set, prints nothing, and
\* ends with the failure kind of the first failing line; and whenever
\* anything has been printed, every line was read and parsed.
C3_AllOrNothing ==
    /\ FailingLines # {} =>
          /\ pc \in {"read", "panicked"}
          /\ valid_words = <<>> /\ output = <<>>
          /\ pos <= FirstFailing
          /\ Finished => failure = Some(FailureKind(stdin[FirstFailing]))
    /\ output # <<>> =>
          /\ pos = Len(stdin) + 1
          /\ Len(pairs) = Len(stdin)
          /\ FailingLines = {}

\* The run has panicked on a line that follows a well-formed one and
\* precedes a failing line of the other kind.
C3_Witness ==
    /\ pc = "panicked" /\ pos = 2
    /\ Len(stdin) = 3
    /\ FailingLines = {2, 3}
    /\ FailureKind(stdin[2]) # FailureKind(stdin[3])
    /\ from_str(stdin[1].text)[2].variant = "Witness"

\* C4: a record list without a witness makes the run print the single line
\* "At least one word must have a known distance" and no word, without a
\* failure.
C4_NoWitnessDiagnostic ==
    (ReadSucceeded /\ Witnesses(pairs) = {}) =>
        /\ failure = None
        /\ pc # "print"
        /\ output = IF pc = "done" THEN <<NoWitnessLine>> ELSE <<>>

\* Candidates only, and the diagnostic printed.
C4_Witness ==
    /\ pc = "done" /\ Len(pairs) >= 2 /\ Witnesses(pairs) = {}
    /\ output = <<NoWitnessLine>>

\* The tokens of a line, located by its spaces.
Spaces(s) == {i \in DOMAIN s : s[i] = " "}
FirstSpace(s) == CHOOSE i \in Spaces(s) : \A j \in Spaces(s) : i <= j
FirstToken(s) == SubSeq(s, 1, FirstSpace(s) - 1)
AfterFirst(s) == SubSeq(s, FirstSpace(s) + 1, Len(s))
SecondToken(s) ==
    IF Spaces(AfterFirst(s)) = {} THEN AfterFirst(s) ELSE FirstToken(AfterFirst(s))

\* A non-negative integer in decimal notation, as Rust reads it (a leading
\* '+' is allowed), and its value.
Unsigned(tok) == IF tok # <<>> /\ tok[1] = "+" THEN SubSeq(tok, 2, Len(tok)) ELSE tok
IsNonNegInt(tok) == Unsigned(tok) # <<>> /\ Range(Unsigned(tok)) \subseteq Digits
RECURSIVE NatOf(_)
NatOf(ds) ==
    IF ds = <<>> THEN 0
    ELSE 10 * NatOf(SubSeq(ds, 1, Len(ds) - 1)) + DigitVal(ds[Len(ds)])

\* The digits of tok denote a number that is at most usize::MAX: fewer
\* significant digits, or as many and not greater at the first difference.
FitsUsize(tok) ==
    LET sig == SubSeq(Unsigned(tok),
                      Cardinality({i \in DOMAIN Unsigned(tok) :
                          \A j \in 1..i : Unsigned(tok)[j] = "0"}) + 1,
                      Len(Unsigned(tok)))
    IN  /\ Len(sig) <= Len(UsizeMax)
        /\ Len(sig) = Len(UsizeMax) =>
              ~\E i \in DOMAIN sig :
                  /\ DigitVal(sig[i]) > DigitVal(UsizeMax[i])
                  /\ \A j \in 1..(i - 1) : sig[j] = UsizeMax[j]

\* C5 as stated: a line of one token parses to Candidate(token); a line of
\* two or more tokens parses to Witness(first token, value of the second
\* token) whenever the second token is a non-negative integer, whatever
\* follows the second token, and fails with BadDistance (not NoInput)
\* otherwise.
C5_AnyNonNegInt ==
    parsed # None =>
        IF Spaces(line) = {}
        THEN parsed[1] = Ok(candidate(line))
        ELSE /\ IsNonNegInt(SecondToken(line)) =>
                   /\ IsOk(parsed[1])
                   /\ parsed[1] = Ok(witness(FirstToken(line),
                                             NatOf(Unsigned(SecondToken(line)))))
             /\ ~IsNonNegInt(SecondToken(line)) =>
                   parsed[1] = Err("BadDistance")
             /\ parsed[1] =
                   from_str(FirstToken(line) \o <<" ">> \o SecondToken(line))

\* C5, amended: a line of one token parses to Candidate(token); a line of
\* two or more tokens parses to Witness(first token, value of the second
\* token) when the second token is a non-negative integer of at most
\* usize::MAX, whatever follows the second token, and fails with
\* BadDistance (not NoInput) when it is not an integer or is too large.
C5_ParseByTokenCount ==
    parsed # None =>
        IF Spaces(line) = {}
        THEN parsed[1] = Ok(candidate(line))
        ELSE LET tok == SecondToken(line)
                 good == IsNonNegInt(tok) /\ FitsUsize(tok)
             IN  /\ good => /\ IsOk(parsed[1])
                            /\ parsed[1] = Ok(witness(FirstToken(line),
                                                      NatOf(Unsigned(tok))))
                 /\ ~good => parsed[1] = Err("BadDistance")
                 /\ parsed[1] = from_str(FirstToken(line) \o <<" ">> \o tok)

\* A witness parsed from a line of three tokens whose second token has
\* more digits than usize::MAX and still denotes a small number.
C5_Witness ==
    /\ parsed # None /\ IsOk(parsed[1])
    /\ Cardinality(Spaces(line)) = 2
    /\ Len(SecondToken(line)) > Len(UsizeMax)
    /\ parsed[1][2].variant = "Witness"
    /\ parsed[1][2].distance = Some(1)
    /\ line[Len(line)] = "a"

\* C6: no word is printed on two lines of the output.
C6_PrintedOnce ==
    \A i, j \in DOMAIN output : output[i] = output[j] => i = j

\* A printed word that three records of the list carry.
C6_Witness ==
    /\ pc = "done"
    /\ \E x \in Printed :
          Cardinality({i \in DOMAIN pairs : word(pairs[i]) = x}) = 3

\* C7: the word of every record that from_str returns is non-empty and
\* has no space in it.
C7_WordNonEmptyNoSpace ==
    (parsed # None /\ IsOk(parsed[1])) =>
        /\ word(parsed[1][2]) # <<>>
        /\ " " \notin Range(word(parsed[1][2]))

\* C8: closeness_to counts the positions below the shorter length at which
\* the two words agree; cutting the longer word to the shorter length
\* changes nothing; a password is as close to itself as its word is long.
C8_ClosenessCountsMatches ==
    close # None =>
        LET n == Min(Len(word(pa)), Len(word(pb)))
            cut(p) == [p EXCEPT !.word = SubSeq(p.word, 1, n)]
        IN  /\ close[1][1] =
                 Cardinality({i \in 1..n : word(pa)[i] = word(pb)[i]})
            /\ close[1][1] = closeness_to(cut(pa), cut(pb))
            /\ word(pa) = word(pb) => close[1][1] = Len(word(pa))

\* Words of different lengths that agree at one position and differ at
\* another one.
C8_Witness ==
    /\ close # None
    /\ Len(word(pa)) = 2 /\ Len(word(pb)) = 3
    /\ word(pa)[1] # word(pb)[1] /\ word(pa)[2] = word(pb)[2]
    /\ close[1][1] = 1

\* C9: closeness_to gives the same value in both directions, for any two
\* variants and lengths.
C9_ClosenessSymmetric ==
    close # None => close[1][1] = close[1][2]

\* A candidate and a longer witness compared in both directions.
C9_Witness ==
    /\ close # None
    /\ pa.variant = "Candidate" /\ pb.variant = "Witness"
    /\ Len(word(pa)) < Len(word(pb))
    /\ close[1][1] > 0 /\ close[1][1] # pb.distance[1]

\* Record t explains every witness: each recorded distance is the closeness
\* of that witness to t.
Explains(t) ==
    \A k \in Witnesses(pairs) :
        pairs[k].distance[1] = closeness_to(pairs[k], pairs[t])

\* C10: with at least one witness, the word of a record that explains every
\* witness is printed, and the word of a witness is printed only when its
\* recorded distance is the length of its word.
C10_TrueWordSurvives ==
    (pc = "done" /\ Witnesses(pairs) # {}) =>
        /\ \A t \in DOMAIN pairs : Explains(t) => word(pairs[t]) \in Printed
        /\ \A k \in Witnesses(pairs) :
              word(pairs[k]) \in Printed =>
                  pairs[k].distance[1] = Len(word(pairs[k]))

\* Two witnesses that are not the true word, and a candidate of another
\* length that explains both and is printed.
C10_Witness ==
    /\ pc = "done" /\ Cardinality(Witnesses(pairs)) = 2
    /\ \E j, k \in Witnesses(pairs) : word(pairs[j]) # word(pairs[k])
    /\ \A k \in Witnesses(pairs) : word(pairs[k]) \notin Printed
    /\ \E t \in DOMAIN pairs :
          /\ pairs[t].variant = "Candidate" /\ Explains(t)
          /\ word(pairs[t]) \in Printed
          /\ \A k \in Witnesses(pairs) : pairs[k].distance[1] > 0

====
